---- MODULE Spec2Model ----
(***************************************************************************)
(* Model of oncotree-fhir: conversion of the Oncotree classification into  *)
(* HL7 FHIR CodeSystem resources.  Two scripts are modelled:               *)
(*   "oncotree_fhir"  -- src/oncotree_fhir.py                              *)
(*   "oncotree-fhir"  -- src/oncotree-fhir.py (the older near-duplicate)   *)
(* Python strings are sequences of one-character strings, so that          *)
(* str.replace, str.rstrip, str.join, substring tests and the ordering of  *)
(* strings are computed and not assumed.                                   *)
(***************************************************************************)
EXTENDS Integers, Sequences, FiniteSets, TLC

VARIABLES
    script,              \* which of the two scripts runs
    args,                \* the argparse.Namespace
    pc,                  \* position in __main__
    available_versions,  \* parse_args' local: the catalog it validated against
    versions,            \* module global set by __main__, read by date_for_version_string
    i,                   \* index of the convert-all loop (1-based)
    version,             \* the loop variable `version` of src/oncotree_fhir.py
    cs,                  \* the CodeSystem built last
    log,                 \* HTTP requests issued and files opened for writing, in order
    exc                  \* the exception that ended the process, or "none"

vars == <<script, args, pc, available_versions, versions, i, version, cs, log, exc>>

-----------------------------------------------------------------------------
(* Bounds of the model *)

\* longest list of source records the tumor-types service answers with
MaxRecords == 3

\* longest version catalog the service answers with
MaxCatalog == 3

-----------------------------------------------------------------------------
(* Python str operations on character sequences *)

\* The characters in use, in code-point order: Python compares str by code point.
Chars ==
    << " ", "$", ",", "-", ".", "/", "0", "1", "2", "3", "4", "5", "6", "7", "8", "9",
       ":", "A", "B", "C", "D", "E", "F", "G", "H", "I", "J", "K", "L", "M", "N", "O",
       "P", "Q", "R", "S", "T", "U", "V", "W", "X", "Y", "Z", "_", "a", "b", "c", "d",
       "e", "f", "g", "h", "i", "j", "k", "l", "m", "n", "o", "p", "q", "r", "s", "t",
       "u", "v", "w", "x", "y", "z", "~" >>

Ord(c) ==
    CHOOSE k \in 1..Len(Chars) : Chars[k] = c

\* a < b for Python str
RECURSIVE StrLess(_, _)
StrLess(a, b) ==
    IF b = <<>> THEN FALSE
    ELSE IF a = <<>> THEN TRUE
    ELSE IF a[1] = b[1] THEN StrLess(Tail(a), Tail(b))
    ELSE Ord(a[1]) < Ord(b[1])

StartsWith(s, p) ==
    Len(p) <= Len(s) /\ SubSeq(s, 1, Len(p)) = p

EndsWith(s, p) ==
    Len(p) <= Len(s) /\ SubSeq(s, Len(s) - Len(p) + 1, Len(s)) = p

\* `sub in s`
Contains(s, sub) ==
    \E k \in 0..(Len(s) - Len(sub)) : SubSeq(s, k + 1, k + Len(sub)) = sub

\* s.replace(old, new), old non-empty: leftmost non-overlapping occurrences
RECURSIVE Replace(_, _, _)
Replace(s, old, new) ==
    IF Len(s) < Len(old) THEN s
    ELSE IF SubSeq(s, 1, Len(old)) = old
         THEN new \o Replace(SubSeq(s, Len(old) + 1, Len(s)), old, new)
         ELSE <<s[1]>> \o Replace(Tail(s), old, new)

\* s.rstrip(c) for a one-character c
RECURSIVE RStrip(_, _)
RStrip(s, c) ==
    IF s # <<>> /\ s[Len(s)] = c THEN RStrip(SubSeq(s, 1, Len(s) - 1), c) ELSE s

\* sep.join(list)
RECURSIVE Join(_, _)
Join(sep, list) ==
    IF list = <<>> THEN <<>>
    ELSE IF Len(list) = 1 THEN list[1]
    ELSE list[1] \o sep \o Join(sep, Tail(list))

\* all sequences over S of length at most n
RECURSIVE SeqsUpTo(_, _)
SeqsUpTo(S, n) ==
    IF n = 0 THEN {<<>>}
    ELSE LET shorter == SeqsUpTo(S, n - 1)
         IN  shorter \cup {Append(q, x) : q \in {t \in shorter : Len(t) = n - 1}, x \in S}

-----------------------------------------------------------------------------
(* String literals of the program *)

s_oncotree_ == <<"o","n","c","o","t","r","e","e","_">>
s_latest_stable == s_oncotree_ \o <<"l","a","t","e","s","t","_","s","t","a","b","l","e">>
s_candidate_release ==
    s_oncotree_ \o <<"c","a","n","d","i","d","a","t","e","_","r","e","l","e","a","s","e">>
s_development == s_oncotree_ \o <<"d","e","v","e","l","o","p","m","e","n","t">>
s_legacy == s_oncotree_ \o <<"l","e","g","a","c","y","_","1",".","1">>
s_snapshot == <<"s","n","a","p","s","h","o","t">>
s_name == <<"o","n","c","o","t","r","e","e">>
s_name_snapshot == s_name \o <<"-">> \o s_snapshot
s_title == <<"O","n","c","o","T","r","e","e">>
s_title_snapshot == s_title \o <<" ","S">> \o Tail(s_snapshot)
s_title_old == <<"O","n","c","o","t","r","e","e">>
s_placeholder == <<"$","v","e","r","s","i","o","n">>
s_tmp_json == <<".","/","o","n","c","o","t","r","e","e",".","t","m","p",".","j","s","o","n">>

\* the membership list of convert_oncotree
SpecialVersions ==
    {s_latest_stable, s_candidate_release, s_development, s_legacy}

-----------------------------------------------------------------------------
(* JSON values of a source record: a key may be missing, null or hold a value *)

Absent == [k |-> "absent"]
Null == [k |-> "null"]
Val(v) == [k |-> "val", v |-> v]

HasValue(x) == x.k = "val"

\* a FHIR concept property: code and its value[x]
Prop(code, value) == [code |-> code, value |-> value]

\* Result of a call: a value or the exception raised
Ok(v) == [ok |-> TRUE, v |-> v]
Raise(e) == [ok |-> FALSE, e |-> e]

-----------------------------------------------------------------------------
(* convert_concept: one source record to one CodeSystemConcept *)

\* external_properties with "," as the separator of the join
external_properties_comma_only(refs) ==
    IF Cardinality(DOMAIN refs) > 0
    THEN (IF "UMLS" \in DOMAIN refs
          THEN <<Prop("umls", Join(<<",">>, refs["UMLS"]))>> ELSE <<>>)
         \o
         (IF "NCI" \in DOMAIN refs
          THEN <<Prop("nci", Join(<<",">>, refs["NCI"]))>> ELSE <<>>)
    ELSE <<>>

\* the properties appended under `if len(externalReferences) > 0`
external_properties(refs) ==
    IF Cardinality(DOMAIN refs) > 0
    THEN (IF "UMLS" \in DOMAIN refs
          THEN <<Prop("umls", Join(<<",", " ">>, refs["UMLS"]))>> ELSE <<>>)
         \o
         (IF "NCI" \in DOMAIN refs
          THEN <<Prop("nci", Join(<<",", " ">>, refs["NCI"]))>> ELSE <<>>)
    ELSE <<>>

convert_concept(r) ==
    IF ~HasValue(r.level) THEN Raise("KeyError")
    ELSE IF r.externalReferences.k = "absent" THEN Raise("KeyError")
    ELSE IF r.externalReferences.k = "null" THEN Raise("TypeError")
    ELSE Ok([code |-> r.code,
             display |-> r.name,
             property |->
                 <<Prop("level", r.level.v)>>
                 \o (IF HasValue(r.color) THEN <<Prop("color", r.color.v)>> ELSE <<>>)
                 \o (IF HasValue(r.parent) THEN <<Prop("parent", r.parent.v)>> ELSE <<>>)
                 \o external_properties(r.externalReferences.v)])

-----------------------------------------------------------------------------
(* get_versions and date_for_version_string *)

\* list.sort is stable, also under reverse=True: x goes behind every entry whose
\* release date is not earlier than its own
RECURSIVE insert_version(_, _)
insert_version(x, sorted) ==
    IF sorted = <<>> THEN <<x>>
    ELSE IF StrLess(sorted[1].release_date, x.release_date) THEN <<x>> \o sorted
    ELSE <<sorted[1]>> \o insert_version(x, Tail(sorted))

\* the catalog left in the order the service answered it
sort_versions_unsorted(rx) ==
    rx

\* rx.sort(key=lambda x: x["release_date"], reverse=True)
RECURSIVE sort_versions(_)
sort_versions(rx) ==
    IF rx = <<>> THEN <<>>
    ELSE insert_version(rx[Len(rx)], sort_versions(SubSeq(rx, 1, Len(rx) - 1)))

\* requests.get(endpoint).json() followed by the sort; body is the service's answer
get_versions(body) ==
    IF body.k = "unparseable" THEN Raise("JSONDecodeError")
    ELSE Ok(sort_versions(body.v))

api_identifiers(vs) ==
    {vs[k].api_identifier : k \in 1..Len(vs)}

\* [v for v in versions if v["api_identifier"] == version_string][0]["release_date"]
date_for_version_string(vs, version_string) ==
    LET hits == SelectSeq(vs, LAMBDA v : v.api_identifier = version_string)
    IN  IF hits = <<>> THEN Raise("IndexError") ELSE Ok(hits[1].release_date)

-----------------------------------------------------------------------------
(* parse_args: the two parser.error checks after the catalog fetch *)

\* parse_args_error without the check of the "$version" placeholder
parse_args_error_version_only(a, avail) ==
    IF a.version \notin api_identifiers(avail) THEN "unknown_version" ELSE "none"

\* "none", or which parser.error call ends the process
parse_args_error(a, avail) ==
    IF a.version \notin api_identifiers(avail) THEN "unknown_version"
    ELSE IF a.action = "convert-all" /\ ~Contains(a.output, s_placeholder)
         THEN "no_placeholder"
    ELSE "none"

-----------------------------------------------------------------------------
(* convert_oncotree: the header of the CodeSystem *)

IsNew == script = "oncotree_fhir"

\* src/oncotree-fhir.py: args.version is kept, the label is a separate variable
json_dict_old(a, ver, date) ==
    LET special == ver \in SpecialVersions
        label == IF special THEN Replace(ver, <<"_">>, <<"-">>)
                 ELSE Replace(Replace(ver, s_oncotree_, <<>>), <<"_">>, <<>>)
        suffix == IF special THEN <<"/">> \o ver ELSE <<>>
    IN  [id |-> Replace(ver, <<"_">>, <<"-">>),
         url |-> RStrip(a.canonical, "/") \o suffix,
         valueSet |-> RStrip(a.valueset, "/") \o suffix,
         name |-> IF special THEN ver ELSE s_name,
         title |-> s_title_old,
         version |-> label,
         date |-> date,
         concept |-> <<>>]

\* json_dict_new with the URL suffix of the older script: the version identifier
json_dict_new_versioned_url(a, ver, date) ==
    LET special == ver \in SpecialVersions
        label == IF special THEN Replace(ver, <<"_">>, <<"-">>)
                 ELSE Replace(Replace(ver, s_oncotree_, <<>>), <<"_">>, <<>>)
        suffix == IF special THEN <<"/">> \o ver ELSE <<>>
    IN  [id |-> Replace(label, <<"_">>, <<"-">>),
         url |-> RStrip(a.canonical, "/") \o suffix,
         valueSet |-> RStrip(a.valueset, "/") \o suffix,
         name |-> IF special THEN s_name_snapshot ELSE s_name,
         title |-> IF special THEN s_title_snapshot ELSE s_title,
         version |-> label,
         date |-> date,
         concept |-> <<>>]

\* json_dict_new with the append of the snapshot segment left out
json_dict_new_no_suffix(a, ver, date) ==
    LET special == ver \in SpecialVersions
        label == IF special THEN Replace(ver, <<"_">>, <<"-">>)
                 ELSE Replace(Replace(ver, s_oncotree_, <<>>), <<"_">>, <<>>)
    IN  [id |-> Replace(label, <<"_">>, <<"-">>),
         url |-> RStrip(a.canonical, "/"),
         valueSet |-> RStrip(a.valueset, "/"),
         name |-> IF special THEN s_name_snapshot ELSE s_name,
         title |-> IF special THEN s_title_snapshot ELSE s_title,
         version |-> label,
         date |-> date,
         concept |-> <<>>]

\* json_dict_new with the second replace of the dated branch left out
json_dict_new_prefix_only(a, ver, date) ==
    LET special == ver \in SpecialVersions
        label == IF special THEN Replace(ver, <<"_">>, <<"-">>)
                 ELSE Replace(ver, s_oncotree_, <<>>)
        suffix == IF special THEN <<"/">> \o s_snapshot ELSE <<>>
    IN  [id |-> Replace(label, <<"_">>, <<"-">>),
         url |-> RStrip(a.canonical, "/") \o suffix,
         valueSet |-> RStrip(a.valueset, "/") \o suffix,
         name |-> IF special THEN s_name_snapshot ELSE s_name,
         title |-> IF special THEN s_title_snapshot ELSE s_title,
         version |-> label,
         date |-> date,
         concept |-> <<>>]

\* src/oncotree_fhir.py: `version` is reassigned before json_dict is built
json_dict_new(a, ver, date) ==
    LET special == ver \in SpecialVersions
        label == IF special THEN Replace(ver, <<"_">>, <<"-">>)
                 ELSE Replace(Replace(ver, s_oncotree_, <<>>), <<"_">>, <<>>)
        suffix == IF special THEN <<"/">> \o s_snapshot ELSE <<>>
    IN  [id |-> Replace(label, <<"_">>, <<"-">>),
         url |-> RStrip(a.canonical, "/") \o suffix,
         valueSet |-> RStrip(a.valueset, "/") \o suffix,
         name |-> IF special THEN s_name_snapshot ELSE s_name,
         title |-> IF special THEN s_title_snapshot ELSE s_title,
         version |-> label,
         date |-> date,
         concept |-> <<>>]

\* convert_concepts that leaves out the records convert_concept raises on
\* the loop with a record dropped when an earlier record has its code
RECURSIVE convert_concepts_deduplicated(_)
convert_concepts_deduplicated(records) ==
    IF records = <<>> THEN Ok(<<>>)
    ELSE LET rest == convert_concepts_deduplicated(SubSeq(records, 1, Len(records) - 1))
             last == convert_concept(records[Len(records)])
         IN  IF ~rest.ok THEN rest
             ELSE IF ~last.ok THEN last
             ELSE IF \E k \in 1..Len(rest.v) : rest.v[k].code = last.v.code THEN rest
             ELSE Ok(rest.v \o <<last.v>>)

RECURSIVE convert_concepts_skip_bad(_)
convert_concepts_skip_bad(records) ==
    IF records = <<>> THEN Ok(<<>>)
    ELSE LET head == convert_concept(records[1])
             rest == convert_concepts_skip_bad(Tail(records))
         IN  IF ~head.ok THEN rest ELSE Ok(<<head.v>> \o rest.v)

\* for concept in rx.json(): cs.concept.append(convert_concept(concept))
RECURSIVE convert_concepts(_)
convert_concepts(records) ==
    IF records = <<>> THEN Ok(<<>>)
    ELSE LET head == convert_concept(records[1])
         IN  IF ~head.ok THEN head
             ELSE LET rest == convert_concepts(Tail(records))
                  IN  IF ~rest.ok THEN rest ELSE Ok(<<head.v>> \o rest.v)

\* The whole of convert_oncotree after the request was sent: rx is the response
\* (status and body), vs the global `versions`.  The status is never read.
convert_oncotree(new, a, ver, vs, rx) ==
    IF rx.body.k = "unparseable" THEN Raise("JSONDecodeError")
    ELSE LET date == date_for_version_string(vs, ver)
         IN  IF ~date.ok THEN date
             ELSE IF rx.body.k = "object" THEN Raise("TypeError")
             ELSE LET concepts == convert_concepts(rx.body.v)
                      header == IF new THEN json_dict_new(a, ver, date.v)
                                ELSE json_dict_old(a, ver, date.v)
                  IN  IF ~concepts.ok THEN concepts
                      ELSE Ok([header EXCEPT !.concept = concepts.v])

-----------------------------------------------------------------------------
(* posixpath, as used by sanitize_filename and write_codesystem *)

\* os.getcwd() and the home directory of the user running the script
Cwd == <<"/", "w">>
Home == <<"/", "h">>

\* p.rfind("/") + 1
LastSlash(p) ==
    IF \E k \in 1..Len(p) : p[k] = "/"
    THEN CHOOSE k \in 1..Len(p) : p[k] = "/" /\ \A j \in (k + 1)..Len(p) : p[j] # "/"
    ELSE 0

dirname(p) ==
    LET head == SubSeq(p, 1, LastSlash(p))
    IN  IF head # <<>> /\ RStrip(head, "/") # <<>> THEN RStrip(head, "/") ELSE head

basename(p) ==
    SubSeq(p, LastSlash(p) + 1, Len(p))

\* os.path.join(a, b)
join(a, b) ==
    IF StartsWith(b, <<"/">>) THEN b
    ELSE IF a = <<>> \/ EndsWith(a, <<"/">>) THEN a \o b
    ELSE a \o <<"/">> \o b

\* p.split("/")
RECURSIVE Split(_)
Split(p) ==
    IF ~Contains(p, <<"/">>) THEN <<p>>
    ELSE LET k == CHOOSE j \in 1..Len(p) : p[j] = "/" /\ \A m \in 1..(j - 1) : p[m] # "/"
         IN  <<SubSeq(p, 1, k - 1)>> \o Split(SubSeq(p, k + 1, Len(p)))

\* the component loop of os.path.normpath
RECURSIVE norm_comps(_, _, _)
norm_comps(comps, acc, rooted) ==
    IF comps = <<>> THEN acc
    ELSE LET c == comps[1]
         IN  IF c = <<>> \/ c = <<".">> THEN norm_comps(Tail(comps), acc, rooted)
             ELSE IF c # <<".", ".">>
                     \/ (~rooted /\ acc = <<>>)
                     \/ (acc # <<>> /\ acc[Len(acc)] = <<".", ".">>)
                  THEN norm_comps(Tail(comps), Append(acc, c), rooted)
             ELSE IF acc # <<>>
                  THEN norm_comps(Tail(comps), SubSeq(acc, 1, Len(acc) - 1), rooted)
             ELSE norm_comps(Tail(comps), acc, rooted)

normpath(p) ==
    IF p = <<>> THEN <<".">>
    ELSE LET rooted == StartsWith(p, <<"/">>)
             slashes == IF ~rooted THEN <<>>
                        ELSE IF StartsWith(p, <<"/", "/">>) /\ ~StartsWith(p, <<"/", "/", "/">>)
                             THEN <<"/", "/">>
                        ELSE <<"/">>
             out == slashes \o Join(<<"/">>, norm_comps(Split(p), <<>>, rooted))
         IN  IF out = <<>> THEN <<".">> ELSE out

abspath(p) ==
    normpath(IF StartsWith(p, <<"/">>) THEN p ELSE join(Cwd, p))

\* os.path.expanduser for the current user ("~" or "~/...")
expanduser(p) ==
    IF StartsWith(p, <<"~">>) /\ (Len(p) = 1 \/ p[2] = "/")
    THEN (IF RStrip(Home, "/") = <<>> THEN <<"/">> ELSE RStrip(Home, "/")) \o Tail(p)
    ELSE p

\* returns <<filename, filepath>>
sanitize_filename(fn, ver) ==
    LET filename == Replace(expanduser(fn), s_placeholder, ver)
    IN  IF dirname(abspath(filename)) = abspath(<<".">>)
        THEN <<filename, filename>>
        ELSE <<filename, join(abspath(dirname(filename)), basename(filename))>>

\* the path write_codesystem opens (both scripts compute it the same way)
write_codesystem_path(a, ver) ==
    sanitize_filename(a.output, ver)[2]

\* the path write_tsv_codesystem opens
write_tsv_path(new, a, ver) ==
    IF new THEN sanitize_filename(a.tsv_output, ver)[2]
    ELSE Replace(a.tsv_output, s_placeholder, ver)

-----------------------------------------------------------------------------
(* write_tsv_codesystem: the rows of the table *)

\* None when the concept has no "parent" property, else the first one's valueCode
parent_for_code(c) ==
    LET p == SelectSeq(c.property, LAMBDA q : q.code = "parent")
    IN  IF p # <<>> THEN Val(p[1].value) ELSE Null

tsv_code(c) ==
    [code |-> c.code, label |-> c.display, parent |-> parent_for_code(c)]

\* list.sort(key=lambda c: c["code"]) is stable: x goes behind every row whose
\* code is not greater than its own
RECURSIVE insert_row(_, _)
insert_row(x, sorted) ==
    IF sorted = <<>> THEN <<x>>
    ELSE IF StrLess(x.code, sorted[1].code) THEN <<x>> \o sorted
    ELSE <<sorted[1]>> \o insert_row(x, Tail(sorted))

\* sort_rows with the sort left out
sort_rows_unsorted(rows) ==
    rows

RECURSIVE sort_rows(_)
sort_rows(rows) ==
    IF rows = <<>> THEN <<>>
    ELSE insert_row(rows[Len(rows)], sort_rows(SubSeq(rows, 1, Len(rows) - 1)))

\* csv.DictWriter.writerows without writeheader: one line per dict, the fields in
\* fieldnames order, None written as the empty string
writerows(rows) ==
    [k \in 1..Len(rows) |->
        <<rows[k].code, rows[k].label,
          IF rows[k].parent.k = "val" THEN rows[k].parent.v ELSE <<>> >>]

\* the lines written to the TSV file for the document cs
write_tsv_codesystem(doc) ==
    writerows(sort_rows([k \in 1..Len(doc.concept) |-> tsv_code(doc.concept[k])]))

-----------------------------------------------------------------------------
(* Inputs: command lines and answers of the Oncotree service *)

s_2021_11_01 == s_oncotree_ \o <<"2","0","2","1","_","1","1","_","0","1">>
s_2020_10_01 == s_oncotree_ \o <<"2","0","2","0","_","1","0","_","0","1">>

Descriptor(id, date, visible) ==
    [api_identifier |-> id, release_date |-> date, visible |-> visible]

d_latest_stable == Descriptor(s_latest_stable, <<"2","0","2","1","-","1","1","-","0","2">>, TRUE)
d_2021_11_01 == Descriptor(s_2021_11_01, <<"2","0","2","1","-","1","1","-","0","1">>, TRUE)
d_2020_10_01 == Descriptor(s_2020_10_01, <<"2","0","2","0","-","1","0","-","0","1">>, FALSE)
d_candidate_release ==
    Descriptor(s_candidate_release, <<"2","0","2","1","-","1","1","-","0","3">>, TRUE)
d_development == Descriptor(s_development, <<"2","0","2","1","-","1","1","-","0","4">>, TRUE)
d_legacy == Descriptor(s_legacy, <<"2","0","1","6","-","0","3","-","2","8">>, FALSE)

Unparseable == [k |-> "unparseable"]
JsonObject == [k |-> "object"]

Distinct(q) ==
    \A m, n \in 1..Len(q) : m # n => q[m] # q[n]

\* answers of GET /versions: a payload that is no JSON, or a list in any order
CatalogAnswers ==
    {Unparseable}
    \cup {Val(q) : q \in {c \in SeqsUpTo({d_latest_stable, d_2021_11_01, d_2020_10_01},
                                         MaxCatalog) : Distinct(c)}}

\* --output and --tsv-output templates
t_json == <<".", "/">> \o s_placeholder \o <<".", "j">>
t_json_fixed == <<"o", ".", "j">>
t_tsv == <<".", "/">> \o s_placeholder \o <<".", "t">>
t_tsv_fixed == <<"o", ".", "t">>

b_canonical == <<"c", "s">>
b_valueset == <<"v", "s">>

Namespace(v, act, out, canon, vset, tsv, tsvout) ==
    [version |-> v, action |-> act, output |-> out, canonical |-> canon,
     valueset |-> vset, write_tsv |-> tsv, tsv_output |-> tsvout]

\* source records
str_A == <<"A">>
str_AB == <<"A", "B">>
str_B == <<"B">>

Record(code, level, color, parent, refs) ==
    [code |-> code, name |-> <<"n">> \o code, level |-> level, color |-> color,
     parent |-> parent, externalReferences |-> refs]

NoRefs == [key \in {} |-> <<>>]
Refs(umls, nci) ==
    [key \in {"UMLS", "NCI"} |-> IF key = "UMLS" THEN umls ELSE nci]

r_root == Record(str_A, Val(0), Absent, Null, Val(NoRefs))
r_child == Record(str_B, Val(1), Val(<<"r">>), Val(str_A), Val(Refs(<<<<"u">>>>, <<<<"n">>>>)))
r_no_level == Record(str_AB, Absent, Absent, Val(str_A), Val(NoRefs))
r_no_refs == Record(str_AB, Val(1), Absent, Val(str_A), Absent)

Response(status, body) == [status |-> status, body |-> body]

\* answers of GET /tumorTypes for the runs of the whole program
TumorTypeAnswers ==
    { Response(200, Val(<<r_child, r_root>>)),
      Response(500, Val(<<r_root>>)),
      Response(500, JsonObject),
      Response(200, Unparseable),
      Response(500, Unparseable),
      Response(200, Val(<<r_root, r_no_level>>)),
      Response(200, Val(<<r_no_level, r_child>>)),
      Response(200, Val(<<r_no_refs>>)) }

\* whether open(path, "w") succeeds
IoOutcomes == {TRUE, FALSE}

-----------------------------------------------------------------------------
(* The log of what the process did to the outside world *)

\* a request sent, with the status of the response that came back
Get(what, ver, status) ==
    [op |-> "GET", what |-> what, ver |-> ver, status |-> status,
     path |-> <<>>, content |-> <<>>]

\* a file opened for writing, with what was written to it
Open(what, ver, path, content) ==
    [op |-> "open", what |-> what, ver |-> ver, status |-> 0,
     path |-> path, content |-> content]

\* the version string the current step works on
CurVersion ==
    IF args.action = "convert-all" /\ IsNew THEN version ELSE args.version

-----------------------------------------------------------------------------
(* __main__ *)

\* line 452: args = parse_args(), with the catalog fetch and the checks in it
parse_args(body) ==
    /\ pc = "start"
    /\ LET r == get_versions(body)
           err == parse_args_error(args, r.v)
       IN  /\ log' = Append(log, Get("versions", <<>>, 200))
           /\ IF ~r.ok
              THEN /\ pc' = "crashed"
                   /\ exc' = r.e
                   /\ UNCHANGED available_versions
              ELSE /\ available_versions' = r.v
                   /\ pc' = IF err = "none" THEN "parsed" ELSE "exited"
                   /\ exc' = IF err = "none" THEN "none" ELSE err
    /\ UNCHANGED <<script, args, versions, i, version, cs>>

\* line 454: versions = get_versions(args), and the dispatch on args.action
main_get_versions(body) ==
    /\ pc = "parsed"
    /\ LET r == get_versions(body)
       IN  /\ log' = Append(log, Get("versions", <<>>, 200))
           /\ IF ~r.ok
              THEN /\ pc' = "crashed"
                   /\ exc' = r.e
                   /\ UNCHANGED versions
              ELSE /\ versions' = r.v
                   /\ pc' = CASE args.action = "versions" -> "print_versions"
                              [] args.action = "convert" -> "convert"
                              [] OTHER -> "loop"
                   /\ UNCHANGED exc
    /\ UNCHANGED <<script, args, available_versions, i, version, cs>>

\* line 456: print_versions(versions) writes the tree to stdout only
main_print_versions ==
    /\ pc = "print_versions"
    /\ pc' = "done"
    /\ UNCHANGED <<script, args, available_versions, versions, i, version, cs, log, exc>>

\* convert_oncotree(args, ver) with its request and the dump of the payload to
\* oncotree.tmp.json (opened for writing before rx.json() is evaluated)
call_convert_oncotree(ver, a, rx) ==
    LET res == convert_oncotree(IsNew, a, ver, versions, rx)
        dumped == IF rx.body.k = "unparseable" THEN [k |-> "empty"] ELSE rx.body
    IN  /\ log' = log \o <<Get("tumorTypes", ver, rx.status), Open("tmp", ver, s_tmp_json, dumped)>>
        /\ IF res.ok
           THEN /\ cs' = res.v
                /\ pc' = "write_codesystem"
                /\ UNCHANGED exc
           ELSE /\ pc' = "crashed"
                /\ exc' = res.e
                /\ UNCHANGED cs

\* line 458: cs = convert_oncotree(args)
main_convert(rx) ==
    /\ pc = "convert"
    /\ call_convert_oncotree(args.version, args, rx)
    /\ UNCHANGED <<script, args, available_versions, versions, i, version>>

\* main_convert_all with a failed conversion caught and the loop going on
main_convert_all_isolated(rx) ==
    /\ pc = "loop"
    /\ i <= Len(versions)
    /\ LET v == versions[i].api_identifier
           a == IF IsNew THEN args ELSE [args EXCEPT !.version = v]
           res == convert_oncotree(IsNew, a, v, versions, rx)
           dumped == IF rx.body.k = "unparseable" THEN [k |-> "empty"] ELSE rx.body
       IN  /\ args' = a
           /\ version' = IF IsNew THEN v ELSE version
           /\ log' = log \o <<Get("tumorTypes", v, rx.status),
                               Open("tmp", v, s_tmp_json, dumped)>>
           /\ cs' = IF res.ok THEN res.v ELSE cs
           /\ pc' = IF res.ok THEN "write_codesystem" ELSE "loop"
           /\ i' = IF res.ok THEN i ELSE i + 1
    /\ UNCHANGED <<script, available_versions, versions, exc>>

\* lines 462-465: the next version of the loop and its conversion; the old script
\* assigns the loop's version to args.version
main_convert_all(rx) ==
    /\ pc = "loop"
    /\ i <= Len(versions)
    /\ LET v == versions[i].api_identifier
           a == IF IsNew THEN args ELSE [args EXCEPT !.version = v]
       IN  /\ args' = a
           /\ version' = IF IsNew THEN v ELSE version
           /\ call_convert_oncotree(v, a, rx)
    /\ UNCHANGED <<script, available_versions, versions, i>>

\* the for loop is exhausted
main_convert_all_end ==
    /\ pc = "loop"
    /\ i > Len(versions)
    /\ pc' = "done"
    /\ UNCHANGED <<script, args, available_versions, versions, i, version, cs, log, exc>>

\* lines 459 and 466: write_codesystem(args, cs, version)
main_write_codesystem(io) ==
    /\ pc = "write_codesystem"
    /\ IF io
       THEN /\ log' = Append(log, Open("json", CurVersion,
                                      write_codesystem_path(args, CurVersion), cs))
            /\ pc' = "write_tsv_codesystem"
            /\ UNCHANGED exc
       ELSE /\ pc' = "crashed"
            /\ exc' = "OSError"
            /\ UNCHANGED log
    /\ UNCHANGED <<script, args, available_versions, versions, i, version, cs>>

\* lines 460 and 467: write_tsv_codesystem(args, cs, version)
main_write_tsv_codesystem(io) ==
    /\ pc = "write_tsv_codesystem"
    /\ IF args.write_tsv /\ ~io
       THEN /\ pc' = "crashed"
            /\ exc' = "OSError"
            /\ UNCHANGED <<log, i>>
       ELSE /\ log' = IF args.write_tsv
                      THEN Append(log, Open("tsv", CurVersion,
                                            write_tsv_path(IsNew, args, CurVersion),
                                            write_tsv_codesystem(cs)))
                      ELSE log
            /\ pc' = IF args.action = "convert-all" THEN "loop" ELSE "done"
            /\ i' = IF args.action = "convert-all" THEN i + 1 ELSE i
            /\ UNCHANGED exc
    /\ UNCHANGED <<script, args, available_versions, versions, version, cs>>

-----------------------------------------------------------------------------
(* The whole program: from the command line to the exit of the process *)

NoDocument == [id |-> <<>>, concept |-> <<>>]

Init ==
    /\ script \in {"oncotree_fhir", "oncotree-fhir"}
    /\ args \in {Namespace(v, act, out, b_canonical, b_valueset, tsv[1], tsv[2]) :
                    v \in {s_latest_stable, s_2021_11_01},
                    act \in {"versions", "convert", "convert-all"},
                    out \in {t_json, t_json_fixed},
                    tsv \in {<<FALSE, t_tsv>>, <<TRUE, t_tsv>>, <<TRUE, t_tsv_fixed>>}}
    /\ pc = "start"
    /\ available_versions = <<>>
    /\ versions = <<>>
    /\ i = 1
    /\ version = <<>>
    /\ cs = NoDocument
    /\ log = <<>>
    /\ exc = "none"

Next ==
    \/ \E body \in CatalogAnswers : parse_args(body)
    \/ \E body \in CatalogAnswers : main_get_versions(body)
    \/ main_print_versions
    \/ \E rx \in TumorTypeAnswers : main_convert(rx)
    \/ \E rx \in TumorTypeAnswers : main_convert_all(rx)
    \/ main_convert_all_end
    \/ \E io \in IoOutcomes : main_write_codesystem(io)
    \/ \E io \in IoOutcomes : main_write_tsv_codesystem(io)

Spec == Init /\ [][Next]_vars

-----------------------------------------------------------------------------
(* The document builder alone: the convert-all loop from the state __main__   *)
(* is in after both catalog fetches, over catalogs of rolling and dated       *)
(* versions and over URL bases with and without trailing slashes              *)

\* the catalogs get_versions can return: sorted by release date, descending
BuildCatalogs ==
    {sort_versions(q) :
        q \in {c \in SeqsUpTo({d_latest_stable, d_candidate_release, d_development,
                               d_legacy, d_2021_11_01, d_2020_10_01}, MaxCatalog) :
                  c # <<>> /\ Distinct(c)}}

CanonicalBases ==
    {b_canonical, b_canonical \o <<"/">>, b_canonical \o <<"/", "/">>,
     b_canonical \o <<"/">> \o s_snapshot}

ValuesetBases ==
    {b_valueset, b_valueset \o <<"/">>, b_valueset \o <<"/", "/">>}

BuildAnswers ==
    {Response(200, Val(<<r_root>>))}

InitBuild ==
    /\ script \in {"oncotree_fhir", "oncotree-fhir"}
    /\ versions \in BuildCatalogs
    /\ available_versions = versions
    /\ args \in {Namespace(versions[1].api_identifier, "convert-all", t_json, c, v,
                           FALSE, t_tsv) : c \in CanonicalBases, v \in ValuesetBases}
    /\ pc = "loop"
    /\ i = 1
    /\ version = <<>>
    /\ cs = NoDocument
    /\ log = <<Get("versions", <<>>, 200), Get("versions", <<>>, 200)>>
    /\ exc = "none"

NextBuild ==
    \/ \E rx \in BuildAnswers : main_convert_all(rx)
    \/ main_convert_all_end
    \/ main_write_codesystem(TRUE)
    \/ main_write_tsv_codesystem(TRUE)

SpecBuild == InitBuild /\ [][NextBuild]_vars

-----------------------------------------------------------------------------
(* The concept mapper and the table exporter alone: one conversion from the   *)
(* state __main__ is in after both catalog fetches, over source records of    *)
(* every shape                                                                 *)

\* one record of every combination of present, null and missing keys
ShapeRecords ==
    {Record(str_A, level, color, parent, refs) :
        level \in {Val(0), Val(1), Absent},
        color \in {Absent, Null, Val(<<"r">>)},
        parent \in {Absent, Null, Val(str_B)},
        refs \in {Absent, Null, Val(NoRefs),
                  Val([key \in {"UMLS"} |-> <<<<"u">>>>]),
                  Val([key \in {"NCI"} |-> <<<<"n">>, <<"m">>>>]),
                  Val([key \in {"OTHER"} |-> <<<<"x">>>>]),
                  Val(Refs(<<<<"u">>, <<"v">>>>, <<<<"n">>>>))}}

\* records that differ in code and parent, for the order of the table
TableRecords ==
    {Record(code, Val(0), Absent, parent, Val(NoRefs)) :
        code \in {str_A, str_AB, str_B}, parent \in {Null, Val(str_A)}}

ConceptAnswers ==
    {Response(200, Val(<<r>>)) : r \in ShapeRecords}
    \cup {Response(200, Val(q)) : q \in SeqsUpTo(TableRecords, MaxRecords)}

InitConcept ==
    /\ script \in {"oncotree_fhir", "oncotree-fhir"}
    /\ versions = <<d_2021_11_01>>
    /\ available_versions = versions
    /\ args = Namespace(s_2021_11_01, "convert", t_json, b_canonical, b_valueset,
                        TRUE, t_tsv)
    /\ pc = "convert"
    /\ i = 1
    /\ version = <<>>
    /\ cs = NoDocument
    /\ log = <<Get("versions", <<>>, 200), Get("versions", <<>>, 200)>>
    /\ exc = "none"

NextConcept ==
    \/ \E rx \in ConceptAnswers : main_convert(rx)
    \/ main_write_codesystem(TRUE)
    \/ main_write_tsv_codesystem(TRUE)

SpecConcept == InitConcept /\ [][NextConcept]_vars

-----------------------------------------------------------------------------
(* Properties of the document builder, checked under SpecBuild *)

\* convert_oncotree has just returned cs for CurVersion
Built ==
    pc = "write_codesystem"

\* s with every underscore replaced by a hyphen, character by character
Hyphenated(s) ==
    [k \in 1..Len(s) |-> IF s[k] = "_" THEN "-" ELSE s[k]]

\* s without its underscores
WithoutUnderscores(s) ==
    SelectSeq(s, LAMBDA ch : ch # "_")

\* u is base without its trailing slashes
IsStripped(u, base) ==
    /\ StartsWith(base, u)
    /\ \A k \in (Len(u) + 1)..Len(base) : base[k] = "/"
    /\ ~EndsWith(u, <<"/">>)

\* the json files written so far
JsonWrites ==
    {k \in 1..Len(log) : log[k].op = "open" /\ log[k].what = "json"}

C2_Original ==
    Built =>
        /\ cs.id = Hyphenated(CurVersion)
        /\ CurVersion \notin SpecialVersions => cs.id # cs.version

\* C3: the document of a rolling version and the document of a dated version,
\* built with the same URL bases, differ in canonical URL and in value-set URL,
\* also when the bases end in slashes.
C3_RollingNeverCollidesWithDated ==
    \A m, n \in JsonWrites :
        (log[m].ver \in SpecialVersions /\ log[n].ver \notin SpecialVersions) =>
            /\ log[m].content.url # log[n].content.url
            /\ log[m].content.valueSet # log[n].content.valueSet

C3_Witness ==
    /\ EndsWith(args.canonical, <<"/", "/">>)
    /\ EndsWith(args.valueset, <<"/">>)
    /\ \E m, n \in JsonWrites :
           log[m].ver \in SpecialVersions /\ log[n].ver \notin SpecialVersions

\* C4 as stated: for a version identifier outside the special set the version
\* label is the identifier without "oncotree_" and without underscores, and the
\* canonical and value-set URLs are the configured bases.
C4_Original ==
    (Built /\ CurVersion \notin SpecialVersions) =>
        /\ cs.version = WithoutUnderscores(Replace(CurVersion, s_oncotree_, <<>>))
        /\ cs.url = args.canonical
        /\ cs.valueSet = args.valueset

\* C4 amended: the version label is as stated ("oncotree_2021_11_01" gives
\* "20211101"); the canonical and value-set URLs are the configured bases with
\* their trailing slashes stripped and nothing appended.
C4_DatedLabelAndUrls ==
    (Built /\ CurVersion \notin SpecialVersions) =>
        /\ cs.version = WithoutUnderscores(Replace(CurVersion, s_oncotree_, <<>>))
        /\ CurVersion = s_2021_11_01 => cs.version = <<"2","0","2","1","1","1","0","1">>
        /\ IsStripped(cs.url, args.canonical)
        /\ IsStripped(cs.valueSet, args.valueset)

C4_Witness ==
    /\ Built
    /\ CurVersion = s_2021_11_01
    /\ cs.version = <<"2","0","2","1","1","1","0","1">>
    /\ args.canonical = b_canonical \o <<"/">>
    /\ cs.url = b_canonical

-----------------------------------------------------------------------------
(* Properties of the concept mapper and the table exporter, checked under     *)
(* SpecConcept                                                                 *)

\* convert_oncotree has just ended, with a document or with an exception
JustConverted ==
    log # <<>> /\ log[Len(log)].what = "tmp"

\* the payload of the last tumor-types fetch, as dumped to oncotree.tmp.json
Fetched ==
    log[Len(log)].content

HasProperty(c, code) ==
    \E k \in 1..Len(c.property) : c.property[k].code = code

\* the property list C5 describes for the record r
ExpectedProperties(r) ==
    LET refs == r.externalReferences.v
    IN  <<Prop("level", r.level.v)>>
        \o (IF r.color.k = "val" THEN <<Prop("color", r.color.v)>> ELSE <<>>)
        \o (IF r.parent.k = "val" THEN <<Prop("parent", r.parent.v)>> ELSE <<>>)
        \o (IF "UMLS" \in DOMAIN refs
            THEN <<Prop("umls", Join(<<",", " ">>, refs["UMLS"]))>> ELSE <<>>)
        \o (IF "NCI" \in DOMAIN refs
            THEN <<Prop("nci", Join(<<",", " ">>, refs["NCI"]))>> ELSE <<>>)

\* C5: a record with code, name, level and an externalReferences map is mapped to
\* a concept whose properties are, in this order, level, color iff present and
\* non-null, parent iff present and non-null, umls iff the map has UMLS (its
\* identifiers joined with ", "), nci iff the map has NCI; level 0 with no
\* color, no parent and an empty map gives the level property alone.
C5_ConceptProperties ==
    (/\ JustConverted
     /\ Fetched.k = "val"
     /\ \A k \in 1..Len(Fetched.v) :
            Fetched.v[k].level.k = "val" /\ Fetched.v[k].externalReferences.k = "val")
    =>
        /\ pc = "write_codesystem"
        /\ Len(cs.concept) = Len(Fetched.v)
        /\ \A k \in 1..Len(Fetched.v) :
            LET r == Fetched.v[k]
                c == cs.concept[k]
            IN  /\ c.code = r.code
                /\ c.display = r.name
                /\ c.property = ExpectedProperties(r)
                /\ (/\ r.level.v = 0
                    /\ r.color.k # "val"
                    /\ r.parent.k # "val"
                    /\ DOMAIN r.externalReferences.v = {})
                   => c.property = <<Prop("level", 0)>>
                /\ ("UMLS" \in DOMAIN r.externalReferences.v
                    /\ r.externalReferences.v["UMLS"] = <<<<"u">>, <<"v">>>>)
                   => \E j \in 1..Len(c.property) :
                          c.property[j] = Prop("umls", <<"u", ",", " ", "v">>)

C5_Witness ==
    /\ JustConverted
    /\ pc = "write_codesystem"
    /\ Len(cs.concept) = 1
    /\ cs.concept[1].property =
           << Prop("level", 1), Prop("color", <<"r">>), Prop("parent", str_B),
              Prop("umls", <<"u", ",", " ", "v">>), Prop("nci", <<"n">>) >>

\* C6 as stated: a record whose external-reference map is empty or missing from
\* the record is converted, and its concept has neither umls nor nci.
C6_Original ==
    (/\ JustConverted
     /\ Fetched.k = "val"
     /\ \A k \in 1..Len(Fetched.v) :
            /\ Fetched.v[k].level.k = "val"
            /\ \/ Fetched.v[k].externalReferences.k = "absent"
               \/ /\ Fetched.v[k].externalReferences.k = "val"
                  /\ DOMAIN Fetched.v[k].externalReferences.v = {})
    =>
        /\ pc = "write_codesystem"
        /\ \A k \in 1..Len(cs.concept) :
               ~HasProperty(cs.concept[k], "umls") /\ ~HasProperty(cs.concept[k], "nci")

\* the TSV file has just been written from cs
TableWritten ==
    log # <<>> /\ log[Len(log)].what = "tsv"

\* the row C7 describes for the concept c
ExpectedRow(c) ==
    << c.code, c.display,
       IF HasProperty(c, "parent")
       THEN c.property[CHOOSE k \in 1..Len(c.property) : c.property[k].code = "parent"].value
       ELSE <<>> >>

Count(q, x) ==
    Cardinality({k \in 1..Len(q) : q[k] = x})

\* C7: the table has one row per concept of the document and no header row, each
\* row is (code, display, parent or empty), the rows ascend by code whatever the
\* order of the concepts, and the row codes are the concept codes as multisets.
C7_TableRows ==
    TableWritten =>
        LET rows == log[Len(log)].content
            expected == [k \in 1..Len(cs.concept) |-> ExpectedRow(cs.concept[k])]
        IN  /\ Len(rows) = Len(cs.concept)
            /\ \A k \in 1..Len(rows) : Count(rows, rows[k]) = Count(expected, rows[k])
            /\ \A k \in 1..Len(expected) : Count(rows, expected[k]) = Count(expected, expected[k])
            /\ \A k \in 1..(Len(rows) - 1) : ~StrLess(rows[k + 1][1], rows[k][1])
            /\ \A k \in 1..Len(rows) :
                   Cardinality({j \in 1..Len(rows) : rows[j][1] = rows[k][1]})
                   = Cardinality({j \in 1..Len(cs.concept) : cs.concept[j].code = rows[k][1]})

C7_Witness ==
    /\ TableWritten
    /\ Len(cs.concept) = 3
    /\ cs.concept[1].code = str_B
    /\ cs.concept[2].code = str_AB
    /\ cs.concept[3].code = str_A
    /\ log[Len(log)].content = << <<str_A, <<"n">> \o str_A, <<>> >>,
                                  <<str_AB, <<"n">> \o str_AB, str_A>>,
                                  <<str_B, <<"n">> \o str_B, <<>> >> >>

-----------------------------------------------------------------------------
(* Properties of the whole program, checked under Spec *)

Requests(what) ==
    {k \in 1..Len(log) : log[k].op = "GET" /\ log[k].what = what}

\* C8 as stated: when a configuration error is raised no HTTP request has been
\* issued and no file has been written.
C8_Original ==
    pc = "exited" => log = <<>>

\* the older script overwrites args.version in the convert-all loop
RequestedVersionKept ==
    IsNew \/ args.action # "convert-all"

\* C8 amended: both configuration errors are raised by parse_args after its one
\* request to /versions and before any request to /tumorTypes and any file write;
\* no /tumorTypes request and no file write happens for a command line that has
\* one of the two errors.
C8_ConfigErrorsBeforeConversion ==
    /\ pc = "exited" =>
        /\ exc \in {"unknown_version", "no_placeholder"}
        /\ log = <<Get("versions", <<>>, 200)>>
    /\ (\E k \in 1..Len(log) : log[k].what # "versions") =>
        /\ args.action = "convert-all" => Contains(args.output, s_placeholder)
        /\ RequestedVersionKept => args.version \in api_identifiers(available_versions)

C8_Witness ==
    /\ pc = "exited"
    /\ exc = "no_placeholder"
    /\ args.action = "convert-all"
    /\ args.output = t_json_fixed
    /\ Requests("versions") = {1}

\* C9 as stated: the catalog is fetched once, the catalog the requested version
\* was validated against is the one date_for_version_string reads, and so the
\* date lookup of an accepted version never fails.
C9_Original ==
    /\ Cardinality(Requests("versions")) <= 1
    /\ pc \in {"print_versions", "convert", "loop", "write_codesystem",
               "write_tsv_codesystem", "done"} => versions = available_versions
    /\ exc # "IndexError"

\* C10 as stated: a tumor-types fetch that comes back with a non-success status
\* (whatever its body) or with an unparseable payload makes convert_oncotree fail
\* for that version, and no JSON or TSV file is written for it.
C10_Original ==
    \A k \in Requests("tumorTypes") :
        (log[k].status # 200 \/ log[k + 1].content.k = "empty") =>
            /\ k + 1 = Len(log) => pc = "crashed"
            /\ \A m \in (k + 1)..Len(log) :
                   ~(log[m].what \in {"json", "tsv"} /\ log[m].ver = log[k].ver)

\* the fetch at log index k got a list with a record that has no level
LacksLevel(k) ==
    /\ log[k + 1].content.k = "val"
    /\ \E n \in 1..Len(log[k + 1].content.v) : log[k + 1].content.v[n].level.k # "val"

\* the file the open at log index m writes is the JSON or the TSV file of ver
IsOutputOf(m, ver) ==
    /\ log[m].op = "open"
    /\ abspath(log[m].path) \in
           {abspath(write_codesystem_path(args, ver)),
            abspath(write_tsv_path(IsNew, args, ver))}

CompleteAt(k) ==
    /\ k + 2 <= Len(log)
    /\ log[k + 1].content.k = "val"
    /\ log[k + 2].what = "json"
    /\ log[k + 2].ver = log[k].ver
    /\ Len(log[k + 2].content.concept) = Len(log[k + 1].content.v)
    /\ args.write_tsv =>
        /\ k + 3 <= Len(log)
        /\ log[k + 3].what = "tsv"
        /\ log[k + 3].ver = log[k].ver
        /\ Len(log[k + 3].content) = Len(log[k + 1].content.v)

\* C12: in convert-all a failed conversion or write of the version at catalog
\* position k ends the run: nothing is fetched or written for a later position,
\* and the files of the earlier positions are complete and stay as they are.
C12_FailureHaltsRun ==
    args.action = "convert-all" =>
        /\ exc # "none" => (pc \in {"crashed", "exited"} /\ ~ENABLED Next)
        /\ \A k \in Requests("tumorTypes") :
               /\ k + 2 <= Len(log) => (log[k + 2].what = "json" /\ log[k + 2].ver = log[k].ver)
               /\ \A later \in Requests("tumorTypes") : k < later => CompleteAt(k)
        /\ \A m \in 1..Len(log) :
               log[m].what # "versions" =>
                   \E p \in 1..Len(versions) : p <= i /\ log[m].ver = versions[p].api_identifier
        /\ pc = "crashed" /\ Requests("tumorTypes") # {} =>
               \A p \in 1..Len(versions) :
                   p > i => \A m \in 1..Len(log) : log[m].ver # versions[p].api_identifier

C12_Witness ==
    /\ args.action = "convert-all"
    /\ args.write_tsv
    /\ pc = "crashed"
    /\ exc = "OSError"
    /\ i = 2
    /\ Len(versions) = 3
    /\ log[Len(log)].what = "json"
    /\ log[Len(log)].ver = versions[2].api_identifier
    /\ \E k \in Requests("tumorTypes") : log[k].ver = versions[1].api_identifier /\ CompleteAt(k)

\* the number of tumor-types fetches up to log index k
Rank(k) ==
    Cardinality({j \in Requests("tumorTypes") : j <= k})

\* the log indices of the entries of kind what for version ver
EntriesOf(what, ver) ==
    {m \in 1..Len(log) : log[m].what = what /\ log[m].ver = ver}

\* C13: convert-all processes the catalog one version after another in descending
\* release-date order: the n-th tumor-types fetch is for the n-th catalog entry,
\* the fetch, JSON write and (if enabled) TSV write of an entry precede, in that
\* order, the fetch of the next entry, and a run that ends without a failure has
\* processed every entry exactly once.
C13_SequentialDescendingOrder ==
    args.action = "convert-all" =>
        /\ \A a, b \in 1..Len(versions) :
               a < b => ~StrLess(versions[a].release_date, versions[b].release_date)
        /\ \A k \in Requests("tumorTypes") :
               /\ Rank(k) <= Len(versions)
               /\ log[k].ver = versions[Rank(k)].api_identifier
        /\ \A k, next \in Requests("tumorTypes") :
               Rank(next) = Rank(k) + 1 =>
                   /\ log[k + 2].what = "json" /\ log[k + 2].ver = log[k].ver
                   /\ IF args.write_tsv
                      THEN log[k + 3].what = "tsv" /\ log[k + 3].ver = log[k].ver /\ next = k + 4
                      ELSE next = k + 3
        /\ pc = "done" =>
               \A p \in 1..Len(versions) :
                   /\ Cardinality(EntriesOf("tumorTypes", versions[p].api_identifier)) = 1
                   /\ Cardinality(EntriesOf("json", versions[p].api_identifier)) = 1
                   /\ Cardinality(EntriesOf("tsv", versions[p].api_identifier))
                          = IF args.write_tsv THEN 1 ELSE 0

C13_Witness ==
    /\ args.action = "convert-all"
    /\ args.write_tsv
    /\ pc = "done"
    /\ Len(versions) = 3
    /\ Cardinality(Requests("tumorTypes")) = 3
    /\ StrLess(versions[3].release_date, versions[2].release_date)
    /\ StrLess(versions[2].release_date, versions[1].release_date)

\* C14: after a successful conversion the document has one concept per fetched
\* record and the k-th concept is the mapping of the k-th record: the source
\* order is kept and records that share a code are neither dropped nor merged.
C14_ConceptsInSourceOrder ==
    (JustConverted /\ pc = "write_codesystem") =>
        /\ Fetched.k = "val"
        /\ Len(cs.concept) = Len(Fetched.v)
        /\ \A k \in 1..Len(Fetched.v) :
               /\ convert_concept(Fetched.v[k]).ok
               /\ cs.concept[k] = convert_concept(Fetched.v[k]).v

C14_Witness ==
    /\ JustConverted
    /\ pc = "write_codesystem"
    /\ Len(cs.concept) = 3
    /\ Fetched.v[1].code = str_B
    /\ Fetched.v[2].code = str_A
    /\ Fetched.v[3].code = str_B
    /\ cs.concept[1] # cs.concept[3]
    /\ cs.concept[3].property = <<Prop("level", 0), Prop("parent", str_A)>>

\* the log indices of the writes of output files (JSON documents and TSV tables)
OutputWrites ==
    {m \in 1..Len(log) : log[m].op = "open" /\ log[m].what \in {"json", "tsv"}}

\* C15 as stated: in convert-all, under every configuration parse_args accepts,
\* the output files of different versions have different paths, so that no
\* version's JSON document or TSV table is overwritten by another version's write.
C15_Original ==
    args.action = "convert-all" =>
        \A m, n \in OutputWrites :
            log[m].ver # log[n].ver => abspath(log[m].path) # abspath(log[n].path)

====
